---- MODULE Spec2Model ----
(***************************************************************************)
(* Model of the WhatsApp bridge (whatsapp-bridge/main.go): the message     *)
(* archive (SQLite tables chats and messages), the inbound event router    *)
(* (handleMessage, handleHistorySync), media acquisition                   *)
(* (extractMediaContent) and the send gateway (sendWhatsAppMessage behind  *)
(* the /api/send handler).                                                 *)
(*                                                                         *)
(* Time is counted in minutes since the epoch; timestamp 0 is the zero     *)
(* timestamp.  A staged file img_<n>.jpg is identified by the clock        *)
(* reading n that names it.                                                *)
(***************************************************************************)
EXTENDS Integers, Sequences, FiniteSets, TLC

\* ------------------------------------------------------------------ bounds
\* number of messages the router processes in one run
MaxEvents == 2
\* the greatest limit GetMessages is called with
MaxLimit == 2
\* the minute the run takes place in
Now == 7

\* --------------------------------------------------------------- constants
\* the recency window of extractMediaContent, in minutes
FiveMinutes == 5

\* ------------------------------------------------------------ configuration
\* appConfig.InputGroups
InputGroups == {"kita@g.us"}

\* chats the session client reports events for
GroupJIDs == {"kita@g.us", "other@g.us"}
ChatJIDs == GroupJIDs \cup {"mom@s.whatsapp.net"}

\* Conversation.ID of a history-sync conversation: a chat, nil, or a string
\* types.ParseJID rejects
NilID == "<nil>"
BadJID == "1.2.3@s.whatsapp.net"
ConversationIDs == InputGroups \cup {NilID, BadJID}

\* JID.User: the part before the "@"
User(jid) ==
  CASE jid = "kita@g.us" -> "kita"
    [] jid = "other@g.us" -> "other"
    [] jid = "mom@s.whatsapp.net" -> "mom"
    [] OTHER -> jid

\* client.Store.Contacts.GetContact(jid).FullName ("" when unknown)
ContactFullName(jid) == IF jid = "mom@s.whatsapp.net" THEN "Mom" ELSE ""

\* client.Store.ID.User
OwnUser == "me"

\* ------------------------------------------------------------ value spaces
\* strings the archive compares with "": a path or thumbnail is a sequence,
\* the empty string the empty sequence
NoPath == <<>>
NoThumb == <<>>
\* fmt.Sprintf("%s/img_%d.jpg", mediaDir, time.Now().UnixNano())
FileName(n) == <<"store/media/img", n>>

\* waProto.Message, as far as the bridge reads it
NilMsg ==
  [nil |-> TRUE, conversation |-> "", hasExt |-> FALSE, extText |-> "",
   hasImage |-> FALSE, caption |-> "", thumb |-> NoThumb]
Proto(conv, hasExt, ext, hasImage, cap, th) ==
  [nil |-> FALSE, conversation |-> conv, hasExt |-> hasExt, extText |-> ext,
   hasImage |-> hasImage, caption |-> cap, thumb |-> th]
\* the message shapes events carry
EventMsgs ==
  { NilMsg,
    Proto("", FALSE, "", FALSE, "", NoThumb),
    Proto("hi", FALSE, "", FALSE, "", NoThumb),
    Proto("", FALSE, "", TRUE, "", NoThumb),
    Proto("", FALSE, "", TRUE, "yo", <<"jpeg">>) }

\* events.Message ids
MsgIDs == {"m1"}

\* WebMessageInfo.Key of a history message
NoKey == [nil |-> TRUE, ID |-> "", FromMe |-> FALSE, Participant |-> ""]
HistoryKeys ==
  { NoKey,
    [nil |-> FALSE, ID |-> "m1", FromMe |-> FALSE, Participant |-> "kid@s.whatsapp.net"] }

\* outcomes of client.Download, os.MkdirAll and os.WriteFile
MediaOutcomes == {"ok", "download_err", "mkdir_err", "open_err", "write_err"}

VARIABLES
  chats,      \* rows of table chats
  messages,   \* rows of table messages
  files,      \* files in store/media
  nano,       \* last time.Now().UnixNano() reading that named a file
  hs,         \* the conversation handleHistorySync is working on
  downloaded, \* (message id, chat) pairs client.Download was invoked for
  events,     \* messages processed so far
  last,       \* what the last handler did
  connected,  \* client.IsConnected()
  http,       \* the last request to /api/send and its answer
  pc,         \* where the main goroutine is
  exit,       \* the exit status of the process and where main returned
  registered, \* the event handler has been added to the client
  listening,  \* the REST server has been started
  store,      \* the message store: "none", "open" or "closed"
  ev,         \* the live message the event handler is working on
  srv,        \* the request the /api/send handler is working on
  late,       \* an archive statement was executed on the closed store
  listing,    \* the result of the last GetChats or GetMessages call
  listGroupsFlag, \* the -list-groups flag
  cn,         \* where the handler of the Connected event is
  eng,        \* the last pass of the face detection service over a staged file
  qr          \* how the session was logged in: "none" stored, "success" paired

vars == <<chats, messages, files, nano, hs, downloaded, events, last, connected, http, pc, exit, registered, listening, store, ev, srv, late, listing, listGroupsFlag, cn, eng, qr>>
process == <<pc, exit, registered, listening, store, ev, srv, late, listGroupsFlag, cn, qr>>
router == <<chats, messages, files, nano, hs, downloaded, events, last>>
gateway == <<connected, http>>


\* StoreChat with a plain INSERT into a table without the primary key
StoreChatInsert(chs, jid, name, lastMessageTime) ==
  chs \cup {[jid |-> jid, name |-> name, last_message_time |-> lastMessageTime]}

\* ----------------------------------------------------------------- archive
\* INSERT OR REPLACE INTO chats: the row with the same primary key (jid) is
\* deleted and the new row inserted
StoreChat(chs, jid, name, lastMessageTime) ==
  {c \in chs : c.jid # jid}
    \cup {[jid |-> jid, name |-> name, last_message_time |-> lastMessageTime]}

\* the chats upsert as a handler sees it: a storage error leaves the table as
\* it was
ExecStoreChat(chs, jid, name, lastMessageTime, dbOk) ==
  IF dbOk THEN StoreChat(chs, jid, name, lastMessageTime) ELSE chs

Row(id, chatJID, sender, content, timestamp, isFromMe, imageURL, thumbnailURL, mediaType) ==
  [id |-> id, chat_jid |-> chatJID, sender |-> sender, content |-> content,
   timestamp |-> timestamp, is_from_me |-> isFromMe, image_url |-> imageURL,
   thumbnail_url |-> thumbnailURL, media_type |-> mediaType]

\* PRIMARY KEY (id, chat_jid)
SameKey(a, b) == a.id = b.id /\ a.chat_jid = b.chat_jid

\* the foreign key not enforced (a database opened without _foreign_keys=on)
ForeignKeyOff(chs, row) ==
  TRUE

\* FOREIGN KEY (chat_jid) REFERENCES chats(jid), enforced (_foreign_keys=on)
ForeignKeyOk(chs, row) == \E c \in chs : c.jid = row.chat_jid

\* StoreMessage with a plain INSERT that keeps the row already stored under
\* the key
StoreMessageKeepOld(msgs, chs, row, dbOk) ==
  IF row.content = "" /\ row.image_url = NoPath
  THEN [rows |-> msgs, err |-> FALSE, wrote |-> FALSE]
  ELSE IF ~dbOk \/ ~ForeignKeyOk(chs, row)
  THEN [rows |-> msgs, err |-> TRUE, wrote |-> FALSE]
  ELSE [rows |-> msgs \cup {row}, err |-> FALSE, wrote |-> TRUE]

\* StoreMessage with image_url and thumbnail_url bound in the wrong order
StoreMessageSwapped(msgs, chs, row, dbOk) ==
  IF row.content = "" /\ row.image_url = NoPath
  THEN [rows |-> msgs, err |-> FALSE, wrote |-> FALSE]
  ELSE IF ~dbOk \/ ~ForeignKeyOk(chs, row)
  THEN [rows |-> msgs, err |-> TRUE, wrote |-> FALSE]
  ELSE [rows |-> {m \in msgs : ~SameKey(m, row)}
                   \cup {[row EXCEPT !.image_url = row.thumbnail_url,
                                     !.thumbnail_url = row.image_url]},
        err |-> FALSE, wrote |-> TRUE]

\* StoreMessage as an update that leaves image_url as stored when the new
\* image_url is empty
StoreMessageMerge(msgs, chs, row, dbOk) ==
  IF row.content = "" /\ row.image_url = NoPath
  THEN [rows |-> msgs, err |-> FALSE, wrote |-> FALSE]
  ELSE IF ~dbOk \/ ~ForeignKeyOk(chs, row)
  THEN [rows |-> msgs, err |-> TRUE, wrote |-> FALSE]
  ELSE LET old == {m \in msgs : SameKey(m, row)}
           url == IF row.image_url = NoPath /\ old # {}
                  THEN (CHOOSE m \in old : TRUE).image_url ELSE row.image_url
       IN [rows |-> (msgs \ old) \cup {[row EXCEPT !.image_url = url]},
           err |-> FALSE, wrote |-> TRUE]

\* MessageStore.StoreMessage: [rows, err]; nothing is written for a message
\* without content and without media, and the call returns nil
StoreMessage(msgs, chs, row, dbOk) ==
  IF row.content = "" /\ row.image_url = NoPath
  THEN [rows |-> msgs, err |-> FALSE, wrote |-> FALSE]
  ELSE IF ~dbOk \/ ~ForeignKeyOk(chs, row)
  THEN [rows |-> msgs, err |-> TRUE, wrote |-> FALSE]
  ELSE [rows |-> {m \in msgs : ~SameKey(m, row)} \cup {row},
        err |-> FALSE, wrote |-> TRUE]

\* the rows stored under a key
RowsOf(id, chat) == {m \in messages : m.id = id /\ m.chat_jid = chat}
ChatRows(chat) == {c \in chats : c.jid = chat}

\* ------------------------------------------------------ content extraction
extractTextContent(msg) ==
  IF msg.nil THEN ""
  ELSE IF msg.conversation # "" THEN msg.conversation
  ELSE IF msg.hasExt THEN msg.extText
  ELSE IF msg.hasImage THEN msg.caption
  ELSE ""

\* the messages extractTextContent can be handed: nil, or any combination of
\* Conversation, ExtendedTextMessage and ImageMessage, which are separate
\* optional fields of waProto.Message
TextMsgs ==
  {NilMsg} \cup
  UNION { { Proto(conv, hasExt, ext, hasImage, cap, th) :
              ext \in (IF hasExt THEN {"", "ex", "ey"} ELSE {""}),
              cap \in (IF hasImage THEN {"", "yo", "ya"} ELSE {""}),
              th \in (IF hasImage THEN {NoThumb, <<"jpeg">>} ELSE {NoThumb}) } :
          conv \in {"", "hi", "ho", "hm"}, hasExt \in BOOLEAN, hasImage \in BOOLEAN }

\* the recency filter with the test of the context inverted
SkipOldHistorical(isHistorical, messageTimestamp, clock) ==
  isHistorical /\ messageTimestamp < clock - FiveMinutes

\* the recency filter: messageTimestamp.Before(time.Now().Add(-5 * time.Minute))
\* outside the historical context
SkipOld(isHistorical, messageTimestamp, clock) ==
  ~isHistorical /\ messageTimestamp < clock - FiveMinutes

NoMedia ==
  [imageURL |-> NoPath, thumbnailURL |-> NoThumb, mediaType |-> "", err |-> "",
   download |-> FALSE, file |-> NoPath]

MediaError(e, written) ==
  [imageURL |-> NoPath, thumbnailURL |-> NoThumb, mediaType |-> "", err |-> e,
   download |-> TRUE, file |-> written]

\* extractMediaContent returning the file name together with the error when
\* the write fails
extractMediaContentKeepsPath(msg, isHistorical, messageTimestamp, clock, reading, outcome) ==
  IF msg.nil \/ ~msg.hasImage THEN NoMedia
  ELSE IF messageTimestamp < clock - FiveMinutes /\ ~isHistorical THEN NoMedia
  ELSE CASE outcome = "download_err" -> MediaError("failed to download image", NoPath)
         [] outcome = "mkdir_err" -> MediaError("failed to create media directory", NoPath)
         [] outcome = "open_err" -> MediaError("failed to save image", NoPath)
         [] outcome = "write_err" ->
            [MediaError("failed to save image", FileName(reading))
               EXCEPT !.imageURL = FileName(reading)]
         [] OTHER ->
            [imageURL |-> FileName(reading), thumbnailURL |-> msg.thumb,
             mediaType |-> "image", err |-> "", download |-> TRUE,
             file |-> FileName(reading)]

\* extractMediaContent: the returned (imageURL, thumbnailURL, mediaType, err),
\* whether client.Download was invoked and the file left in store/media;
\* reading is the clock reading that names the file
extractMediaContent(msg, isHistorical, messageTimestamp, clock, reading, outcome) ==
  IF msg.nil \/ ~msg.hasImage THEN NoMedia
  ELSE IF SkipOld(isHistorical, messageTimestamp, clock) THEN NoMedia
  ELSE CASE outcome = "download_err" -> MediaError("failed to download image", NoPath)
         [] outcome = "mkdir_err" -> MediaError("failed to create media directory", NoPath)
         [] outcome = "open_err" -> MediaError("failed to save image", NoPath)
         [] outcome = "write_err" -> MediaError("failed to save image", FileName(reading))
         [] OTHER ->
            [imageURL |-> FileName(reading), thumbnailURL |-> msg.thumb,
             mediaType |-> "image", err |-> "", download |-> TRUE,
             file |-> FileName(reading)]

\* isKindergartenGroup letting every chat through
isKindergartenGroupAny(chatJID) == chatJID \in ChatJIDs

\* isKindergartenGroup: the chat is one of appConfig.InputGroups
isKindergartenGroup(chatJID) == chatJID \in InputGroups

\* name resolution shared by both handlers: the contact's full name, else the
\* user part of the chat identifier
ChatName(jid) == IF ContactFullName(jid) # "" THEN ContactFullName(jid) ELSE User(jid)

\* clock readings the next file name can be made of: the reading of the
\* previous staged file again, or a later one
Readings == IF FileName(nano) \in files THEN {nano, nano + 1} ELSE {nano + 1}

\* what the environment can answer to one acquisition: an outcome of the
\* download and the file system when the download is reached, and a clock
\* reading when a file name is made
OutcomesFor(msg, isHistorical, messageTimestamp) ==
  IF msg.nil \/ ~msg.hasImage \/ SkipOld(isHistorical, messageTimestamp, Now)
  THEN {"ok"}
  ELSE MediaOutcomes
ReadingsFor(msg, isHistorical, messageTimestamp, outcome) ==
  IF msg.nil \/ ~msg.hasImage \/ SkipOld(isHistorical, messageTimestamp, Now)
     \/ outcome \notin {"ok", "write_err"}
  THEN {nano + 1}
  ELSE Readings

\* timestamps messages carry: the zero timestamp, one older than the recency
\* window, the current minute
Timestamps == {0, Now - (FiveMinutes + 1), Now}
\* msg.Info.Timestamp of a live event is never zero
LiveTimestamps == Timestamps \ {0}

\* ------------------------------------------------------------ observations
\* what a handler did with one message: its inputs, the media acquisition
\* result, the archive calls it made and the rows they replaced
Obs(op, chat, id, ts, msg, content, media, why, chatCall, chatErr, msgCall, sm, row) ==
  [op |-> op, chat |-> chat, id |-> id, ts |-> ts, msg |-> msg, clock |-> Now,
   content |-> content, media |-> media, skipped |-> why,
   redownload |-> media.download /\ <<id, chat>> \in downloaded,
   chatCall |-> chatCall, chatErr |-> chatErr,
   msgCall |-> msgCall, msgErr |-> sm.err, wrote |-> sm.wrote, row |-> row,
   chatLogged |-> FALSE, msgLogged |-> FALSE,
   prevChat |-> {c \in chats : c.jid = chat},
   prevRows |-> {m \in messages : m.id = id /\ m.chat_jid = chat},
   prevFiles |-> files]

NoRow == Row("", "", "", "", 0, FALSE, NoPath, NoThumb, "")
NoStore == [rows |-> {}, err |-> FALSE, wrote |-> FALSE]

NoObs ==
  [op |-> "none", chat |-> "", id |-> "", ts |-> 0, msg |-> NilMsg, clock |-> 0,
   content |-> "", media |-> NoMedia, skipped |-> "", redownload |-> FALSE,
   chatCall |-> FALSE, chatErr |-> FALSE, msgCall |-> FALSE, msgErr |-> FALSE,
   wrote |-> FALSE, row |-> NoRow, chatLogged |-> FALSE, msgLogged |-> FALSE,
   prevChat |-> {}, prevRows |-> {}, prevFiles |-> {}]

\* no GetMessages or GetChats call has been made
NoListing ==
  [op |-> "none", chat |-> "", limit |-> 0, err |-> FALSE, rows |-> <<>>, out |-> <<>>]

\* the observation with what the handler logged about the errors of its
\* archive calls
Logged(obs, chatLogged, msgLogged) ==
  [obs EXCEPT !.chatLogged = chatLogged, !.msgLogged = msgLogged]

\* the effect of one media acquisition on store/media, the clock reading and
\* the record of downloads
Staged(media) == IF media.file = NoPath THEN files ELSE files \cup {media.file}
Read(media, reading) == IF media.file = NoPath THEN nano ELSE reading
Downloaded(media, id, chat) ==
  IF media.download THEN downloaded \cup {<<id, chat>>} ELSE downloaded

\* a call of extractTextContent
ExtractTextCall ==
  /\ \E msg \in TextMsgs :
       last' = [NoObs EXCEPT !.op = "extractTextContent", !.msg = msg,
                             !.content = extractTextContent(msg)]
  /\ UNCHANGED <<chats, messages, files, nano, hs, downloaded, events, gateway, process, listing, eng>>

\* ------------------------------------------------------------ live messages
\* msg.Info.Sender of the events: the peer in a direct chat, a participant
\* in a group
LiveSender(chat) == IF chat \in GroupJIDs THEN "kid@s.whatsapp.net" ELSE chat

\* handleMessage for the event (chat, id, ts, msg); outcome and reading are
\* what the download and the clock give, chatOk and msgOk whether the two
\* archive statements succeed
HandleMessage(chat, id, ts, msg, outcome, reading, chatOk, msgOk) ==
  /\ events' = events + 1
  /\ UNCHANGED <<hs, gateway>>
  /\ IF chat \in GroupJIDs /\ ~isKindergartenGroup(chat)
     THEN /\ last' = Obs("live", chat, id, ts, msg, "", NoMedia, "unmonitored",
                         FALSE, FALSE, FALSE, NoStore, NoRow)
          /\ UNCHANGED <<chats, messages, files, nano, downloaded>>
     ELSE LET content == extractTextContent(msg)
              media == extractMediaContent(msg, FALSE, ts, Now, reading, outcome)
              row == Row(id, chat, LiveSender(chat), content, ts, FALSE, media.imageURL,
                         media.thumbnailURL, media.mediaType)
              chats1 == ExecStoreChat(chats, chat, ChatName(chat), ts, chatOk)
              sm == StoreMessage(messages, chats1, row, msgOk)
          IN /\ files' = Staged(media)
             /\ nano' = Read(media, reading)
             /\ downloaded' = Downloaded(media, id, chat)
             /\ IF content = "" /\ media.imageURL = NoPath
                THEN /\ last' = Obs("live", chat, id, ts, msg, content, media, "empty",
                                    FALSE, FALSE, FALSE, NoStore, NoRow)
                     /\ UNCHANGED <<chats, messages>>
                ELSE /\ chats' = chats1
                     /\ messages' = sm.rows
                     /\ last' = Logged(Obs("live", chat, id, ts, msg, content, media, "",
                                           TRUE, ~chatOk, TRUE, sm, row),
                                       ~chatOk, sm.err)

\* a live message event arrives; the archive statements succeed
Live ==
  /\ events < MaxEvents
  /\ \E chat \in ChatJIDs, id \in MsgIDs, ts \in LiveTimestamps, msg \in EventMsgs :
    \E outcome \in OutcomesFor(msg, FALSE, ts) :
      \E reading \in ReadingsFor(msg, FALSE, ts, outcome) :
        HandleMessage(chat, id, ts, msg, outcome, reading, TRUE, TRUE)
  /\ UNCHANGED <<process, listing, eng>>

\* ------------------------------------------------------------- history sync
\* a WebMessageInfo of a conversation: nil stands for a nil entry or a nil
\* Message in it, proto for Message.Message, ts for GetMessageTimestamp()
NilHistoryMsg == [nil |-> TRUE, proto |-> NilMsg, key |-> NoKey, ts |-> 0]
HistoryMsgs ==
  {NilHistoryMsg} \cup [nil : {FALSE}, proto : EventMsgs, key : HistoryKeys, ts : Timestamps]

\* first messages of the conversations of an event; a conversation whose ID
\* is nil or does not parse is passed over whatever it holds
FirstMsgs(conv) == IF conv \in {NilID, BadJID} THEN {NilHistoryMsg} ELSE HistoryMsgs

\* the messages that follow the first one in a conversation that is passed
\* over because of its first message: messages with a key and a timestamp
LaterMsgs(conv, first) ==
  IF conv \notin {NilID, BadJID} /\ (first.nil \/ first.ts = 0)
  THEN {h \in HistoryMsgs : ~h.nil /\ ~h.key.nil /\ h.ts # 0} ELSE {NilHistoryMsg}

\* the sender handleHistorySync derives from the message key
HistorySender(key, jid) ==
  IF key.nil THEN User(jid)
  ELSE IF ~key.FromMe /\ key.Participant # "" THEN key.Participant
  ELSE IF key.FromMe THEN OwnUser
  ELSE User(jid)

HistoryIsFromMe(key) == ~key.nil /\ key.FromMe

HistoryMsgID(key) == IF key.nil THEN "" ELSE key.ID

NotWorking == [active |-> FALSE, chat |-> "", ts |-> 0]

\* one iteration of the message loop of handleHistorySync, for message hmsg
\* of conversation chat; timestamp is the one taken from the conversation's
\* first message, chs the chats table the message row is checked against
HistoryMessage(chs, chat, timestamp, hmsg, outcome, reading, msgOk, chatCall, chatErr) ==
  /\ events' = events + 1
  /\ UNCHANGED gateway
  /\ IF hmsg.nil
     THEN /\ last' = Obs("history", chat, "", 0, NilMsg, "", NoMedia, "nil",
                         chatCall, chatErr, FALSE, NoStore, NoRow)
          /\ UNCHANGED <<messages, files, nano, downloaded>>
     ELSE LET content == extractTextContent(hmsg.proto)
              media == extractMediaContent(hmsg.proto, FALSE, timestamp, Now, reading, outcome)
              msgID == HistoryMsgID(hmsg.key)
              row == Row(msgID, chat, HistorySender(hmsg.key, chat), content, hmsg.ts,
                         HistoryIsFromMe(hmsg.key), media.imageURL, media.thumbnailURL,
                         media.mediaType)
              sm == StoreMessage(messages, chs, row, msgOk)
          IN /\ files' = Staged(media)
             /\ nano' = Read(media, reading)
             /\ downloaded' = Downloaded(media, msgID, chat)
             /\ IF content = "" /\ media.imageURL = NoPath
                THEN /\ last' = Obs("history", chat, msgID, hmsg.ts, hmsg.proto, content,
                                    media, "empty", chatCall, chatErr, FALSE, NoStore, NoRow)
                     /\ UNCHANGED messages
                ELSE IF hmsg.ts = 0
                THEN /\ last' = Obs("history", chat, msgID, hmsg.ts, hmsg.proto, content,
                                    media, "zero_ts", chatCall, chatErr, FALSE, NoStore, NoRow)
                     /\ UNCHANGED messages
                ELSE /\ messages' = sm.rows
                     /\ last' = Logged(Obs("history", chat, msgID, hmsg.ts, hmsg.proto,
                                           content, media, "", chatCall, chatErr, TRUE,
                                           sm, row),
                                       FALSE, sm.err)

\* handleHistorySync reaches a conversation: the conversation is passed over
\* when its ID is nil or does not parse, or when its first message is nil or
\* has no timestamp; otherwise the chat is upserted with the first message's
\* timestamp (the error of that upsert is not looked at) and the first
\* message goes through the message loop; later is a message that follows
\* the first one in a conversation that is passed over
HistoryConversation(conv, first, later, outcome, reading, chatOk, msgOk) ==
  /\ IF conv \in {NilID, BadJID} \/ first.nil \/ first.ts = 0
     THEN /\ last' = [NoObs EXCEPT !.op = "history_skip", !.chat = conv,
                                   !.id = HistoryMsgID(later.key), !.ts = later.ts,
                                   !.msg = later.proto,
                                   !.content = extractTextContent(later.proto)]
          /\ UNCHANGED <<chats, messages, files, nano, hs, downloaded, events, gateway>>
     ELSE LET chats1 == ExecStoreChat(chats, conv, ChatName(conv), first.ts, chatOk)
          IN /\ chats' = chats1
             /\ hs' = [active |-> TRUE, chat |-> conv, ts |-> first.ts]
             /\ HistoryMessage(chats1, conv, first.ts, first, outcome, reading, msgOk,
                               TRUE, ~chatOk)

\* a history-sync event brings a conversation; the archive statements succeed
HistoryBegin ==
  /\ ~hs.active
  /\ events < MaxEvents
  /\ \E conv \in ConversationIDs :
      \E first \in FirstMsgs(conv) :
    \E later \in LaterMsgs(conv, first) :
    \E outcome \in OutcomesFor(first.proto, FALSE, first.ts) :
      \E reading \in ReadingsFor(first.proto, FALSE, first.ts, outcome) :
        HistoryConversation(conv, first, later, outcome, reading, TRUE, TRUE)
  /\ UNCHANGED <<process, listing, eng>>

\* the message loop goes on to the conversation's next message
HistoryNext ==
  /\ hs.active
  /\ events < MaxEvents
  /\ \E hmsg \in HistoryMsgs :
       \E outcome \in OutcomesFor(hmsg.proto, FALSE, hs.ts) :
         \E reading \in ReadingsFor(hmsg.proto, FALSE, hs.ts, outcome) :
           HistoryMessage(chats, hs.chat, hs.ts, hmsg, outcome, reading, TRUE, FALSE, FALSE)
  /\ UNCHANGED <<chats, hs, process, listing, eng>>

\* the conversation has no more messages
HistoryEnd ==
  /\ hs.active
  /\ hs' = NotWorking
  /\ last' = [NoObs EXCEPT !.op = "history_end", !.chat = hs.chat]
  /\ UNCHANGED <<chats, messages, files, nano, downloaded, events, gateway, process, listing, eng>>

\* ------------------------------------------------------ storage failures
\* a live message event arrives; each archive statement succeeds or fails
LiveFault ==
  /\ events < MaxEvents
  /\ \E chat \in ChatJIDs, id \in MsgIDs, ts \in LiveTimestamps, msg \in EventMsgs :
    \E outcome \in OutcomesFor(msg, FALSE, ts) :
      \E reading \in ReadingsFor(msg, FALSE, ts, outcome) :
        \E chatOk \in BOOLEAN, msgOk \in BOOLEAN :
          HandleMessage(chat, id, ts, msg, outcome, reading, chatOk, msgOk)
  /\ UNCHANGED <<process, listing, eng>>

\* a history-sync event brings a conversation; each archive statement
\* succeeds or fails
HistoryBeginFault ==
  /\ ~hs.active
  /\ events < MaxEvents
  /\ \E conv \in ConversationIDs :
      \E first \in FirstMsgs(conv) :
    \E later \in LaterMsgs(conv, first) :
    \E outcome \in OutcomesFor(first.proto, FALSE, first.ts) :
      \E reading \in ReadingsFor(first.proto, FALSE, first.ts, outcome) :
        \E chatOk \in BOOLEAN, msgOk \in BOOLEAN :
          HistoryConversation(conv, first, later, outcome, reading, chatOk, msgOk)
  /\ UNCHANGED <<process, listing, eng>>

\* the message loop goes on to the conversation's next message
HistoryNextFault ==
  /\ hs.active
  /\ events < MaxEvents
  /\ \E hmsg \in HistoryMsgs :
       \E outcome \in OutcomesFor(hmsg.proto, FALSE, hs.ts) :
         \E reading \in ReadingsFor(hmsg.proto, FALSE, hs.ts, outcome) :
           \E msgOk \in BOOLEAN :
             HistoryMessage(chats, hs.chat, hs.ts, hmsg, outcome, reading, msgOk,
                            FALSE, FALSE)
  /\ UNCHANGED <<chats, hs, process, listing, eng>>

\* ------------------------------------------------------- archive, directly
\* rows a caller of the archive can hand to StoreMessage
StoreRows ==
  { Row(id, "kita@g.us", "kid@s.whatsapp.net", content, ts, FALSE, url, NoThumb,
        IF url = NoPath THEN "" ELSE "image") :
      id \in {"m1", "m2"}, content \in {"", "hi", "yo"}, ts \in {Now - 1, Now},
      url \in {NoPath, FileName(1)} }

\* a call of MessageStore.StoreChat; dbOk is whether the statement succeeds
StoreChatCall ==
  \E ts \in {Now - 1, Now}, dbOk \in BOOLEAN :
    /\ chats' = ExecStoreChat(chats, "kita@g.us", "kita", ts, dbOk)
    /\ last' = [NoObs EXCEPT !.op = "StoreChat", !.chat = "kita@g.us", !.ts = ts,
                             !.chatCall = TRUE, !.chatErr = ~dbOk,
                             !.prevChat = ChatRows("kita@g.us")]
    /\ UNCHANGED <<messages, files, nano, hs, downloaded, events, gateway, process, listing, eng>>

\* a call of MessageStore.StoreMessage
StoreMessageCall ==
  /\ events < MaxEvents
  /\ \E row \in StoreRows, dbOk \in BOOLEAN :
       LET sm == StoreMessage(messages, chats, row, dbOk)
       IN /\ messages' = sm.rows
          /\ last' = [NoObs EXCEPT !.op = "StoreMessage", !.chat = row.chat_jid,
                                   !.id = row.id, !.ts = row.timestamp,
                                   !.content = row.content, !.msgCall = TRUE,
                                   !.msgErr = sm.err, !.wrote = sm.wrote, !.row = row,
                                   !.prevChat = ChatRows(row.chat_jid),
                                   !.prevRows = RowsOf(row.id, row.chat_jid)]
  /\ events' = events + 1
  /\ UNCHANGED <<chats, files, nano, hs, downloaded, gateway, process, listing, eng>>

\* ------------------------------------------------------------ send gateway
\* a destination is the sequence of its parts, "" the empty sequence
GroupSuffix == "@g.us"
HasSuffix(phone, suffix) == Len(phone) > 0 /\ phone[Len(phone)] = suffix
TrimSuffix(phone, suffix) ==
  IF HasSuffix(phone, suffix) THEN SubSeq(phone, 1, Len(phone) - 1) ELSE phone

\* the recipient JID sendWhatsAppMessage builds
RecipientJID(phone) ==
  IF HasSuffix(phone, GroupSuffix)
  THEN [User |-> TrimSuffix(phone, GroupSuffix), Server |-> "g.us"]
  ELSE [User |-> phone, Server |-> "s.whatsapp.net"]

NoJID == [User |-> <<>>, Server |-> ""]
NoMessage == [kind |-> "none", text |-> "", caption |-> ""]

\* an error value and a formatted string are the sequences of their parts;
\* fmt.Sprintf and fmt.Errorf put the parts of their argument after the text
\* of the format
NoError == <<>>
Sprintf(format, arg) == <<format>> \o arg

\* what os.ReadFile, image.Decode, client.Upload and client.SendMessage
\* return when they fail
ReadFileError == <<"open ", "a.png", ": no such file or directory">>
DecodeError == <<"image: unknown format">>
UploadError == <<"failed to upload: 503">>
SendMessageError == <<"failed to send: timed out">>
SentID == <<"3EB0">>

SendResult(success, detail, uploads, sends, to, msg) ==
  [success |-> success, detail |-> detail, uploads |-> uploads, sends |-> sends,
   to |-> to, msg |-> msg]

\* verifyAndConvertImage that hands the bytes on whether or not they decode
verifyAndConvertImageLenient(decodeOk) ==
  NoError

\* verifyAndConvertImage: the error it returns for the bytes read
verifyAndConvertImage(decodeOk) ==
  IF decodeOk THEN NoError ELSE Sprintf("Error decoding image: ", DecodeError)

\* the end of sendWhatsAppMessage with the error of client.SendMessage not
\* looked at
SendItSwallow(phone, msg, uploads, sendOk) ==
  SendResult(TRUE, Sprintf("Message sent to ", phone \o <<" with ID: ">> \o SentID),
             uploads, 1, RecipientJID(phone), msg)

\* the client.SendMessage call that ends sendWhatsAppMessage
SendIt(phone, msg, uploads, sendOk) ==
  IF sendOk
  THEN SendResult(TRUE, Sprintf("Message sent to ", phone \o <<" with ID: ">> \o SentID),
                  uploads, 1, RecipientJID(phone), msg)
  ELSE SendResult(FALSE, Sprintf("Error sending message: ", SendMessageError),
                  uploads, 1, RecipientJID(phone), msg)

\* a return of sendWhatsAppMessage before client.SendMessage
Failed(detail, uploads) == SendResult(FALSE, detail, uploads, 0, NoJID, NoMessage)

\* client.IsConnected taken to be true whatever the session says
IsConnectedAlways(up) ==
  TRUE

\* client.IsConnected() for a session that is up or down
IsConnected(up) ==
  up

\* sendWhatsAppMessage: (success, detail), the number of client.Upload and
\* client.SendMessage calls it made, and what it sent to whom; readOk,
\* decodeOk, uploadOk and sendOk are the outcomes of os.ReadFile,
\* image.Decode, client.Upload and client.SendMessage
sendWhatsAppMessage(isConnected, phone, message, mediaURL, mediaType, caption, readOk, decodeOk, uploadOk, sendOk) ==
  IF ~IsConnected(isConnected)
  THEN Failed(<<"Not connected to WhatsApp">>, 0)
  ELSE IF mediaURL # "" /\ mediaType # ""
  THEN IF ~readOk
       THEN Failed(Sprintf("Error reading media file: ", ReadFileError), 0)
       ELSE CASE mediaType = "image" ->
                 IF verifyAndConvertImage(decodeOk) # NoError
                 THEN Failed(Sprintf("Error processing image: ",
                                     verifyAndConvertImage(decodeOk)), 0)
                 ELSE IF ~uploadOk
                 THEN Failed(Sprintf("Error uploading image: ", UploadError), 1)
                 ELSE SendIt(phone, [kind |-> "image", text |-> "", caption |-> caption],
                             1, sendOk)
              [] mediaType = "video" ->
                 IF ~uploadOk
                 THEN Failed(Sprintf("Error uploading video: ", UploadError), 1)
                 ELSE SendIt(phone, [kind |-> "video", text |-> "", caption |-> caption],
                             1, sendOk)
              [] OTHER ->
                 SendIt(phone, [kind |-> "text", text |-> message, caption |-> ""],
                        0, sendOk)
  ELSE SendIt(phone, [kind |-> "text", text |-> message, caption |-> ""], 0, sendOk)

\* the request validation of the /api/send handler with its two tests joined
\* by "and"
InvalidRequestBoth(req) ==
  req.phone = <<>> /\ (req.message = "" /\ req.media_url = "")

\* the request validation of the /api/send handler
InvalidRequest(req) ==
  req.phone = <<>> \/ (req.message = "" /\ req.media_url = "")

\* http.StatusMethodNotAllowed, http.StatusBadRequest,
\* http.StatusInternalServerError, and the status written when the handler
\* sets none
StatusMethodNotAllowed == 405
StatusBadRequest == 400
StatusInternalServerError == 500
StatusOK == 200

\* the status the handler writes for the result of sendWhatsAppMessage, with
\* the WriteHeader call left out
StatusOfAlwaysOK(success) ==
  StatusOK

\* the status the handler writes for the result of sendWhatsAppMessage
StatusOf(success) ==
  IF success THEN StatusOK ELSE StatusInternalServerError

\* the outcomes of the collaborator calls a request met
Calls(readOk, decodeOk, uploadOk, sendOk) ==
  [readOk |-> readOk, decodeOk |-> decodeOk, uploadOk |-> uploadOk, sendOk |-> sendOk]
NoCalls == Calls(TRUE, TRUE, TRUE, TRUE)

\* the body written by http.Error, and the SendMessageResponse written as JSON
TextBody(text) == [type |-> "text/plain", Success |-> FALSE, Message |-> text]
SendMessageResponse(success, message) ==
  [type |-> "application/json", Success |-> success, Message |-> message]

\* what the handler answered: the request, the status and body written, the
\* result of sendWhatsAppMessage and the collaborator outcomes behind it
Answer(req, status, body, r, calls) ==
  [op |-> "send", req |-> req, status |-> status, body |-> body,
   success |-> r.success, detail |-> r.detail, uploads |-> r.uploads,
   sends |-> r.sends, to |-> r.to, msg |-> r.msg, calls |-> calls,
   wasConnected |-> connected]

\* a request answered by http.Error
Refused(req, status, text) ==
  Answer(req, status, TextBody(text), Failed(text, 0), NoCalls)

\* the answer of the handler to a request that passed validation
Respond(req, isConnected, readOk, decodeOk, uploadOk, sendOk) ==
  LET r == sendWhatsAppMessage(isConnected, req.phone, req.message, req.media_url,
                               req.media_type, req.caption,
                               readOk, decodeOk, uploadOk, sendOk)
  IN Answer(req, StatusOf(r.success), SendMessageResponse(r.success, r.detail),
            r, Calls(readOk, decodeOk, uploadOk, sendOk))

\* the handler of /api/send for request req
HandleSend(req, readOk, decodeOk, uploadOk, sendOk) ==
  /\ http' =
       IF req.method # "POST"
       THEN Refused(req, StatusMethodNotAllowed, <<"Method not allowed">>)
       ELSE IF ~req.bodyOk
       THEN Refused(req, StatusBadRequest, <<"Invalid request format">>)
       ELSE IF InvalidRequest(req)
       THEN Refused(req, StatusBadRequest,
                    <<"Phone and either message or media URL are required">>)
       ELSE Respond(req, connected, readOk, decodeOk, uploadOk, sendOk)
  /\ UNCHANGED <<router, connected>>

\* requests: a body that does not decode leaves the request empty
Request(method, bodyOk, phone, message, mediaURL, mediaType, caption) ==
  [method |-> method, bodyOk |-> bodyOk, phone |-> phone, message |-> message,
   media_url |-> mediaURL, media_type |-> mediaType, caption |-> caption]
Phones == {<<>>, <<"4917">>, <<"kita", "@g.us">>, <<"4917", "@s.whatsapp.net">>}
Requests ==
  { Request("GET", TRUE, <<"4917">>, "hi", "", "", ""),
    Request("POST", FALSE, <<>>, "", "", "", ""),
    Request("GET", FALSE, <<>>, "", "", "", "") }
  \cup { Request("POST", TRUE, phone, message, mediaURL, mediaType, caption) :
           phone \in Phones, message \in {"", "hi"}, mediaURL \in {"", "a.png"},
           mediaType \in {"", "image", "video", "document"}, caption \in {"", "look"} }

\* a request arrives at /api/send; each collaborator call it reaches
\* succeeds or fails
Send ==
  /\ \E req \in Requests :
       LET media == req.media_url # "" /\ req.media_type # ""
           upload == media /\ req.media_type \in {"image", "video"}
       IN \E readOk \in (IF media THEN BOOLEAN ELSE {TRUE}) :
          \E decodeOk \in (IF media /\ req.media_type = "image" THEN BOOLEAN ELSE {TRUE}) :
          \E uploadOk \in (IF upload THEN BOOLEAN ELSE {TRUE}) :
          \E sendOk \in BOOLEAN :
            HandleSend(req, readOk, decodeOk, uploadOk, sendOk)
  /\ UNCHANGED <<process, listing, eng>>

\* the session client reports Connected, Disconnected or LoggedOut: the
\* event handler logs the event, the session is up or down from then on
EvConnected ==
  /\ ~connected
  /\ connected' = TRUE
  /\ UNCHANGED <<router, http, process, listing, eng>>

EvDisconnected ==
  /\ connected
  /\ connected' = FALSE
  /\ UNCHANGED <<router, http, process, listing, eng>>

NoRequest ==
  [op |-> "none", req |-> Request("", FALSE, <<>>, "", "", "", ""), status |-> 0,
   body |-> TextBody(<<>>), success |-> FALSE, detail |-> <<>>, uploads |-> 0,
   sends |-> 0, to |-> NoJID, msg |-> NoMessage, calls |-> NoCalls,
   wasConnected |-> FALSE]

\* -------------------------------------------------------------- the process
\* main has not returned
Running == [code |-> -1, at |-> "", why |-> ""]
\* the event handler is working on no message
NoEvent == [stage |-> "idle", chat |-> "", id |-> "", ts |-> 0, msg |-> NilMsg,
            outcome |-> "ok", reading |-> 0, signalled |-> FALSE]
\* the /api/send handler is in no collaborator call
NoCall == [stage |-> "idle", req |-> Request("", FALSE, <<>>, "", "", "", ""),
           hangs |-> FALSE, signalled |-> FALSE]

\* what os.ReadFile and json.Unmarshal make of ../config.json
ConfigOutcomes == {"ok", "missing", "malformed"}

\* main returns: the deferred calls run and the process ends with status 0
Return(at, why) ==
  /\ pc' = "exited"
  /\ exit' = [code |-> 0, at |-> at, why |-> why]

\* main reads and parses the configuration file
ReadConfig ==
  /\ pc = "config"
  /\ \E cfg \in ConfigOutcomes :
       IF cfg = "ok" THEN pc' = "store" /\ UNCHANGED exit ELSE Return("config", cfg)
  /\ UNCHANGED <<router, gateway, registered, listening, store, ev, srv, late, listing, listGroupsFlag, qr, cn, eng>>

\* main makes the store directory, the session store, the client and the
\* message store; it returns when one of them fails
OpenStores ==
  /\ pc = "store"
  /\ \E ok \in BOOLEAN :
       IF ok THEN pc' = "handler" /\ store' = "open" /\ UNCHANGED exit
       ELSE Return("store", "error") /\ UNCHANGED store
  /\ UNCHANGED <<router, gateway, registered, listening, ev, srv, late, listing, listGroupsFlag, qr, cn, eng>>

\* client.AddEventHandler
AddEventHandler ==
  /\ pc = "handler"
  /\ registered' = TRUE
  /\ pc' = "connect"
  /\ UNCHANGED <<router, gateway, exit, listening, store, ev, srv, late, listing, listGroupsFlag, qr, cn, eng>>

\* the wait for the QR channel taken to end with the login whatever it
\* delivered
ConnectOutcomeNoWait(paired, connectOk, qrEvent, stable) ==
  IF ~connectOk THEN "error"
  ELSE IF ~stable THEN "unstable"
  ELSE "ok"

\* how main gets through the connection: client.Connect fails; without a
\* stored ID the QR channel closes without "success" and the wait of three
\* minutes runs out; client.IsConnected() is false after the two seconds
ConnectOutcome(paired, connectOk, qrEvent, stable) ==
  IF ~connectOk THEN "error"
  ELSE IF ~paired /\ qrEvent # "success" THEN "timeout"
  ELSE IF ~stable THEN "unstable"
  ELSE "ok"

\* client.Connect, the pairing and the wait for a stable connection; on a
\* failure main returns and the deferred messageStore.Close runs
Connect ==
  /\ pc = "connect"
  /\ \E paired \in BOOLEAN, connectOk \in BOOLEAN, stable \in BOOLEAN :
       \E qrEvent \in (IF paired THEN {"none"} ELSE {"success", "timeout"}) :
         LET outcome == ConnectOutcome(paired, connectOk, qrEvent, stable)
         IN /\ qr' = IF connectOk THEN qrEvent ELSE qr
            /\ IF outcome = "ok"
               THEN /\ connected' = TRUE /\ pc' = "rest" /\ cn' = "connected"
                    /\ UNCHANGED <<exit, store>>
               ELSE /\ Return("connect", outcome) /\ store' = "closed"
                    /\ UNCHANGED <<connected, cn>>
  /\ UNCHANGED <<router, http, registered, listening, ev, srv, late, listing, listGroupsFlag, eng>>

\* the handler of *events.Connected, on the client's goroutine: it logs the
\* joined groups and, with -list-groups, calls listGroups (the error of the
\* group query is logged), client.Disconnect and os.Exit(0), which ends the
\* process without the deferred calls of main
ConnectedEnds ==
  /\ cn = "connected" /\ pc # "exited"
  /\ \E groupsOk \in BOOLEAN :
       IF listGroupsFlag
       THEN /\ cn' = IF groupsOk /\ connected THEN "listed" ELSE "failed"
            /\ connected' = FALSE
            /\ pc' = "exited"
            /\ exit' = [code |-> 0, at |-> "list-groups",
                        why |-> IF groupsOk /\ connected THEN "listed" ELSE "error"]
       ELSE /\ cn' = "done"
            /\ UNCHANGED <<connected, pc, exit>>
  /\ UNCHANGED <<router, http, registered, listening, store, ev, srv, late, listing, listGroupsFlag, qr, eng>>

\* startRESTServer: the server goroutine listens from now on
StartRESTServer ==
  /\ pc = "rest"
  /\ listening' = TRUE
  /\ pc' = "wait"
  /\ UNCHANGED <<router, gateway, exit, registered, store, ev, srv, late, listing, listGroupsFlag, qr, cn, eng>>

\* SIGINT or SIGTERM arrives on exitChan
Signal ==
  /\ pc = "wait"
  /\ pc' = "disconnect"
  /\ UNCHANGED <<router, gateway, exit, registered, listening, store, ev, srv, late, listing, listGroupsFlag, qr, cn, eng>>

\* client.Disconnect
Disconnect ==
  /\ pc = "disconnect"
  /\ connected' = FALSE
  /\ pc' = "close"
  /\ UNCHANGED <<router, http, exit, registered, listening, store, ev, srv, late, listing, listGroupsFlag, qr, cn, eng>>

\* the deferred messageStore.Close
Close ==
  /\ pc = "close"
  /\ store' = "closed"
  /\ pc' = "exit"
  /\ UNCHANGED <<router, gateway, exit, registered, listening, ev, srv, late, listing, listGroupsFlag, qr, cn, eng>>

\* main has returned: the process ends, whatever its goroutines are doing
Exit ==
  /\ pc = "exit"
  /\ Return("end", "signal")
  /\ UNCHANGED <<router, gateway, registered, listening, store, ev, srv, late, listing, listGroupsFlag, qr, cn, eng>>

\* the signal has arrived
Signalled == pc \in {"disconnect", "close", "exit", "exited"}

\* live messages the client delivers while the process runs
ProcessMsgs == {m \in EventMsgs : ~m.nil /\ (m.conversation # "" \/ m.caption # "")}

\* the client calls the event handler with a live message of a monitored
\* group, on its own goroutine
MessageBegins ==
  /\ registered /\ connected /\ pc # "exited"
  /\ ev.stage = "idle"
  /\ events < MaxEvents
  /\ \E msg \in ProcessMsgs :
       ev' = [NoEvent EXCEPT !.stage = "handling", !.chat = "kita@g.us", !.id = "m1",
                             !.ts = Now, !.msg = msg, !.signalled = Signalled]
  /\ UNCHANGED <<router, gateway, pc, exit, registered, listening, store, srv, late, listing, listGroupsFlag, qr, cn, eng>>

\* handleMessage runs to its end for the message taken: the download, the
\* staged file and the two archive statements, which fail on a closed store
MessageEnds ==
  /\ ev.stage = "handling" /\ pc # "exited"
  /\ \E outcome \in OutcomesFor(ev.msg, FALSE, ev.ts) :
       \E reading \in ReadingsFor(ev.msg, FALSE, ev.ts, outcome) :
         HandleMessage(ev.chat, ev.id, ev.ts, ev.msg, outcome, reading,
                       store = "open", store = "open")
  /\ ev' = NoEvent
  /\ late' = (late \/ store = "closed")
  /\ UNCHANGED <<pc, exit, registered, listening, store, srv, listing, listGroupsFlag, qr, cn, eng>>

\* requests that reach /api/send while the process runs
ProcessRequests ==
  { Request("POST", TRUE, <<>>, "hi", "", "", ""),
    Request("POST", TRUE, <<"4917">>, "hi", "", "", ""),
    Request("POST", TRUE, <<"4917">>, "", "a.png", "image", "look") }

\* the server goroutine takes a request: the handler answers at once when it
\* refuses the request or sendWhatsAppMessage returns before client.Upload
\* and client.SendMessage, otherwise it enters the first of the two calls,
\* which are made with context.Background() and may never return
RequestBegins ==
  /\ listening /\ pc # "exited"
  /\ srv.stage = "idle"
  /\ \E req \in ProcessRequests :
       LET image == req.media_url # "" /\ req.media_type = "image"
       IN \E readOk \in (IF image THEN BOOLEAN ELSE {TRUE}) :
          \E decodeOk \in (IF image THEN BOOLEAN ELSE {TRUE}) :
            LET r == sendWhatsAppMessage(connected, req.phone, req.message, req.media_url,
                                         req.media_type, req.caption,
                                         readOk, decodeOk, TRUE, TRUE)
            IN IF InvalidRequest(req) \/ r.sends = 0
               THEN HandleSend(req, readOk, decodeOk, TRUE, TRUE) /\ UNCHANGED srv
               ELSE /\ \E hangs \in BOOLEAN :
                         srv' = [stage |-> IF r.uploads = 1 THEN "upload" ELSE "send",
                                 req |-> req, hangs |-> hangs, signalled |-> Signalled]
                    /\ UNCHANGED <<router, gateway>>
  /\ UNCHANGED <<pc, exit, registered, listening, store, ev, late, listing, listGroupsFlag, qr, cn, eng>>

\* client.Upload returns: on an error the handler answers, otherwise it
\* enters client.SendMessage
UploadReturns ==
  /\ srv.stage = "upload" /\ ~srv.hangs /\ pc # "exited"
  /\ \E uploadOk \in BOOLEAN :
       IF uploadOk
       THEN /\ \E hangs \in BOOLEAN : srv' = [srv EXCEPT !.stage = "send", !.hangs = hangs]
            /\ UNCHANGED http
       ELSE /\ srv' = NoCall
            /\ http' = Respond(srv.req, TRUE, TRUE, TRUE, FALSE, TRUE)
  /\ UNCHANGED <<router, connected, pc, exit, registered, listening, store, ev, late, listing, listGroupsFlag, qr, cn, eng>>

\* client.SendMessage returns and the handler answers
SendReturns ==
  /\ srv.stage = "send" /\ ~srv.hangs /\ pc # "exited"
  /\ \E sendOk \in BOOLEAN :
       http' = Respond(srv.req, TRUE, TRUE, TRUE, TRUE, sendOk)
  /\ srv' = NoCall
  /\ UNCHANGED <<router, connected, pc, exit, registered, listening, store, ev, late, listing, listGroupsFlag, qr, cn, eng>>

\* ---------------------------------------------------- identity match engine
\* face_detection.min_matching_faces and face_detection.confidence_threshold
\* of the configuration, the threshold in tenths
MinMatchingFaces == 2
ConfidenceThreshold == 5

\* the most faces the embedding function finds in one image
MaxFaces == 2

\* the configured identities, their reference photos and their destinations
Identities == {"ann", "ben"}
References(identity) == IF identity = "ann" THEN {"a1", "a2", "a3"} ELSE {"b1", "b2"}
AllReferences == UNION {References(i) : i \in Identities}
Destination(identity) ==
  IF identity = "ann" THEN "NOTIFICATION_GROUP_ID@g.us" ELSE "+PHONE_NUMBER"

\* a detected face is given by its distance to every reference photo: at the
\* threshold or just beyond it
Distances == {ConfidenceThreshold, ConfidenceThreshold + 1}
Faces == [AllReferences -> Distances]

\* the results of the embedding function: sets of at most n faces
RECURSIVE FaceSets(_)
FaceSets(n) ==
  IF n = 0 THEN {{}}
  ELSE LET P == FaceSets(n - 1) IN P \cup {S \cup {f} : S \in P, f \in Faces}

\* the count taken over (face, reference photo) pairs
MatchingCountPairs(identity, faces) ==
  Cardinality({q \in faces \X References(identity) : q[1][q[2]] <= ConfidenceThreshold})

\* the number of the identity's reference photos that have at least one
\* detected face within the threshold
MatchingCount(identity, faces) ==
  Cardinality({r \in References(identity) : \E f \in faces : f[r] <= ConfidenceThreshold})

\* the identities declared matched for an image
Matched(faces) ==
  {i \in Identities : MatchingCount(i, faces) >= MinMatchingFaces}

\* a notification for the first matched identity only
DispatchTargetsFirst(matched) ==
  IF matched = {} THEN {} ELSE {CHOOSE i \in matched : TRUE}

\* the identities a notification is dispatched for
DispatchTargets(matched) ==
  matched

\* the dispatch calls made for the targets, one after the other; sendOk is
\* what the gateway answers for each
RECURSIVE Dispatches(_, _, _)
Dispatches(targets, file, sendOk) ==
  IF targets = {} THEN <<>>
  ELSE LET i == CHOOSE x \in targets : TRUE
       IN <<[identity |-> i, to |-> Destination(i), media |-> file, ok |-> sendOk[i]]>>
            \o Dispatches(targets \ {i}, file, sendOk)

\* the staged file is deleted unless the pass ended with an error
CleanupUnlessError(fs, file, outcome) ==
  IF outcome = "error" THEN fs ELSE fs \ {file}

\* the staged file is deleted at the end of the pass
Cleanup(fs, file, outcome) ==
  fs \ {file}

\* the service has processed no file
NoPass ==
  [op |-> "none", file |-> NoPath, faces |-> {}, outcome |-> "", matched |-> {},
   calls |-> <<>>]

\* the service processes one staged file in one pass: embedding, quorum
\* decision, one dispatch per matched identity, deletion of the file; the
\* pass can fail in the embedding function or in the matching
ProcessImage ==
  /\ \E file \in files, failure \in {"none", "embed", "match"} :
       \E faces \in (IF failure = "embed" THEN {{}} ELSE FaceSets(MaxFaces)) :
         LET matched == IF failure # "none" THEN {} ELSE Matched(faces)
             outcome == IF failure # "none" THEN "error"
                        ELSE IF matched = {} THEN "no_match" ELSE "matched"
             targets == DispatchTargets(matched)
         IN \E sendOk \in [targets -> BOOLEAN] :
              /\ eng' = [op |-> "processed", file |-> file, faces |-> faces,
                         outcome |-> outcome, matched |-> matched,
                         calls |-> Dispatches(targets, file, sendOk)]
              /\ files' = Cleanup(files, file, outcome)
  /\ UNCHANGED <<chats, messages, nano, hs, downloaded, events, last, gateway, process, listing>>

\* ----------------------------------------------------------------- queries
\* the orders a set of rows can be listed in
Orders(S) ==
  {q \in [1..Cardinality(S) -> S] : \A x \in S : \E i \in 1..Cardinality(S) : q[i] = x}
Min(a, b) == IF a < b THEN a ELSE b

\* the Message struct a row is scanned into: id and chat_jid are not selected
Message(row) ==
  [Time |-> row.timestamp, Sender |-> row.sender, Content |-> row.content,
   IsFromMe |-> row.is_from_me, ImageURL |-> row.image_url,
   ThumbnailURL |-> row.thumbnail_url, MediaType |-> row.media_type]

\* GetMessages with ORDER BY timestamp ASC
GetMessagesAscending(msgs, chatJID, limit) ==
  LET S == {m \in msgs : m.chat_jid = chatJID}
  IN { SubSeq(q, 1, IF limit < 0 THEN Len(q) ELSE Min(limit, Len(q))) :
         q \in {o \in Orders(S) :
                  \A i \in 1..Len(o) : \A j \in i..Len(o) :
                    o[i].timestamp <= o[j].timestamp} }

\* MessageStore.GetMessages: the row sequences the query can give: the rows
\* of the chat by timestamp descending, rows of equal timestamp in any
\* order, cut at limit (SQLite does not cut at a negative limit)
GetMessages(msgs, chatJID, limit) ==
  LET S == {m \in msgs : m.chat_jid = chatJID}
  IN { SubSeq(q, 1, IF limit < 0 THEN Len(q) ELSE Min(limit, Len(q))) :
         q \in {o \in Orders(S) :
                  \A i \in 1..Len(o) : \A j \in i..Len(o) :
                    o[i].timestamp >= o[j].timestamp} }

\* MessageStore.GetChats: the rows of the query, by last_message_time
\* descending, put into a map from jid to last_message_time
GetChats(chs) ==
  [jid \in {c.jid : c \in chs} |->
     (CHOOSE c \in chs : c.jid = jid).last_message_time]

\* rows and chats an archive that is queried can hold
QueryRows ==
  { Row(id, "kita@g.us", "kid@s.whatsapp.net", "hi", ts, FALSE, NoPath, NoThumb, "") :
      id \in {"m1", "m2", "m3"}, ts \in {Now - 1, Now} }
  \cup { Row("m1", "other@g.us", "kid@s.whatsapp.net", "yo", Now, FALSE, NoPath,
              NoThumb, "") }
QueryChats ==
  UNION { StoreChat({}, jid, User(jid), ts) : jid \in GroupJIDs, ts \in {Now - 1, Now} }

\* the archives the two upserts can build from them: one row per key, every
\* message in a stored chat
Archives ==
  { a \in (SUBSET QueryChats) \X (SUBSET QueryRows) :
      /\ \A c \in a[1] : \A d \in a[1] : c.jid = d.jid => c = d
      /\ \A m \in a[2] : \A n \in a[2] : SameKey(m, n) => m = n
      /\ \A m \in a[2] : ForeignKeyOk(a[1], m) }

\* a call of MessageStore.GetMessages; the query succeeds or fails
GetMessagesCall ==
  /\ \E chatJID \in GroupJIDs, limit \in 0..MaxLimit, dbOk \in BOOLEAN :
       \E rows \in (IF dbOk THEN GetMessages(messages, chatJID, limit) ELSE {<<>>}) :
         listing' = [op |-> "GetMessages", chat |-> chatJID, limit |-> limit,
                     err |-> ~dbOk, rows |-> rows,
                     out |-> [i \in 1..Len(rows) |-> Message(rows[i])]]
  /\ UNCHANGED <<router, gateway, process, eng>>

\* a call of MessageStore.GetChats; the caller goes through the returned map
\* with range, in an order the map chooses
GetChatsCall ==
  /\ \E dbOk \in BOOLEAN :
       LET result == IF dbOk THEN GetChats(chats) ELSE << >>
       IN \E out \in Orders({<<jid, result[jid]>> : jid \in DOMAIN result}) :
            listing' = [op |-> "GetChats", chat |-> "", limit |-> 0, err |-> ~dbOk,
                        rows |-> <<>>, out |-> out]
  /\ UNCHANGED <<router, gateway, process, eng>>

\* ------------------------------------------------------------ specification
\* the process after startup: empty archive, session connected, command
\* surface listening
Init ==
  /\ chats = {}
  /\ messages = {}
  /\ files = {}
  /\ nano = 0
  /\ hs = NotWorking
  /\ downloaded = {}
  /\ events = 0
  /\ last = NoObs
  /\ connected = TRUE
  /\ http = NoRequest
  /\ pc = "wait"
  /\ exit = Running
  /\ registered = TRUE
  /\ listening = TRUE
  /\ store = "open"
  /\ ev = NoEvent
  /\ srv = NoCall
  /\ late = FALSE
  /\ listing = NoListing
  /\ listGroupsFlag = FALSE
  /\ cn = "done"
  /\ eng = NoPass
  /\ qr = "none"

\* the inbound event router
Next == Live \/ HistoryBegin \/ HistoryNext \/ HistoryEnd
Spec == Init /\ [][Next]_vars

\* the inbound event router over an archive whose statements can fail
NextFault == LiveFault \/ HistoryBeginFault \/ HistoryNextFault \/ HistoryEnd
SpecFault == Init /\ [][NextFault]_vars

\* the archive under direct calls
NextStore == StoreChatCall \/ StoreMessageCall
SpecStore == Init /\ [][NextStore]_vars

\* the archive under queries, from every archive the upserts can build
InitQuery ==
  /\ \E a \in Archives : chats = a[1] /\ messages = a[2]
  /\ files = {}
  /\ nano = 0
  /\ hs = NotWorking
  /\ downloaded = {}
  /\ events = 0
  /\ last = NoObs
  /\ connected = TRUE
  /\ http = NoRequest
  /\ pc = "wait"
  /\ exit = Running
  /\ registered = TRUE
  /\ listening = TRUE
  /\ store = "open"
  /\ ev = NoEvent
  /\ srv = NoCall
  /\ late = FALSE
  /\ listing = NoListing
  /\ listGroupsFlag = FALSE
  /\ cn = "done"
  /\ eng = NoPass
  /\ qr = "none"
NextQuery == GetMessagesCall \/ GetChatsCall
SpecQuery == InitQuery /\ [][NextQuery]_vars

\* the command surface and the session
NextGateway == Send \/ EvConnected \/ EvDisconnected
SpecGateway == Init /\ [][NextGateway]_vars

\* the process from its start to its end: main, the event handler goroutine
\* and the server goroutine
InitProcess ==
  /\ chats = {}
  /\ messages = {}
  /\ files = {}
  /\ nano = 0
  /\ hs = NotWorking
  /\ downloaded = {}
  /\ events = 0
  /\ last = NoObs
  /\ connected = FALSE
  /\ http = NoRequest
  /\ pc = "config"
  /\ exit = Running
  /\ registered = FALSE
  /\ listening = FALSE
  /\ store = "none"
  /\ ev = NoEvent
  /\ srv = NoCall
  /\ late = FALSE
  /\ listing = NoListing
  /\ listGroupsFlag \in BOOLEAN
  /\ cn = "none"
  /\ eng = NoPass
  /\ qr = ""
NextProcess ==
  \/ ReadConfig \/ OpenStores \/ AddEventHandler \/ Connect \/ StartRESTServer
  \/ Signal \/ Disconnect \/ Close \/ Exit
  \/ ConnectedEnds \/ MessageBegins \/ MessageEnds
  \/ RequestBegins \/ UploadReturns \/ SendReturns
  \/ EvDisconnected
\* the process from its start until it serves: main up to the REST server,
\* the event handler goroutine and the server goroutine
NextStartup ==
  \/ ReadConfig \/ OpenStores \/ AddEventHandler \/ Connect \/ StartRESTServer
  \/ ConnectedEnds \/ MessageBegins \/ MessageEnds \/ RequestBegins
SpecStartup == InitProcess /\ [][NextStartup]_vars

\* the goroutines are scheduled: main goes on after the signal, a handler
\* whose collaborator call returns goes on to its end
SpecProcess ==
  /\ InitProcess /\ [][NextProcess]_vars
  /\ WF_vars(Disconnect) /\ WF_vars(Close) /\ WF_vars(Exit)
  /\ WF_vars(MessageEnds) /\ WF_vars(UploadReturns) /\ WF_vars(SendReturns)
  /\ WF_vars(ConnectedEnds)

\* extractTextContent on its own
NextText == ExtractTextCall
SpecText == Init /\ [][NextText]_vars

\* the face detection service over the files staged in store/media
InitMatch ==
  /\ chats = {}
  /\ messages = {}
  /\ files \in {{FileName(1)}, {FileName(2)}}
  /\ nano = 2
  /\ hs = NotWorking
  /\ downloaded = {}
  /\ events = 0
  /\ last = NoObs
  /\ connected = TRUE
  /\ http = NoRequest
  /\ pc = "wait"
  /\ exit = Running
  /\ registered = TRUE
  /\ listening = TRUE
  /\ store = "open"
  /\ ev = NoEvent
  /\ srv = NoCall
  /\ late = FALSE
  /\ listing = NoListing
  /\ listGroupsFlag = FALSE
  /\ cn = "done"
  /\ eng = NoPass
  /\ qr = "none"
NextMatch == ProcessImage
SpecMatch == InitMatch /\ [][NextMatch]_vars

\* ------------------------------------------------------------------ claims
Handled == last.op \in {"live", "history"}
Unmonitored == GroupJIDs \ InputGroups
Stale(ts, clock) == ts < clock - FiveMinutes

\* C1: the archive holds at most one row per (message id, chat id), and a
\* StoreMessage call that writes (it carries content or media and returns
\* nil) leaves under its key exactly the row it was given, whatever row was
\* stored there before
C1_UpsertLatestWins ==
  /\ \A a \in messages : \A b \in messages : SameKey(a, b) => a = b
  /\ (last.op = "StoreMessage" /\ ~last.msgErr
        /\ (last.row.content # "" \/ last.row.image_url # NoPath)) =>
       RowsOf(last.id, last.chat) = {last.row}
\* the second of two calls with the same key and different content
C1_Witness ==
  /\ last.op = "StoreMessage" /\ ~last.msgErr
  /\ last.row.content # ""
  /\ last.prevRows # {}
  /\ \A p \in last.prevRows : p.content # "" /\ p.content # last.row.content

\* C2: every stored message row has non-empty text content or a non-empty
\* media reference, whatever live and history-sync events were handled
C2_RowsHaveContent ==
  \A m \in messages : m.content # "" \/ m.image_url # NoPath
\* a message without text and media went through the history handler while
\* the archive holds a row that has media and no text
C2_Witness ==
  /\ last.op = "history" /\ last.skipped = "empty"
  /\ \E m \in messages : m.content = "" /\ m.image_url # NoPath

\* C3: the last-message timestamp stored for a chat never decreases: a
\* handler never leaves the chat with an older timestamp than it found
C3_ChatTimestampMonotone ==
  Handled =>
    \A p \in last.prevChat : \A c \in ChatRows(last.chat) :
      c.last_message_time >= p.last_message_time

\* C4: a live image message older than five minutes at acquisition time gets
\* no media: the download is not invoked and no file is staged
C4_StaleLiveImageSkipped ==
  (last.op = "live" /\ last.msg.hasImage /\ Stale(last.ts, last.clock)) =>
    /\ ~last.media.download
    /\ last.media.imageURL = NoPath
    /\ files = last.prevFiles
C4_Witness ==
  /\ last.op = "live" /\ last.msg.hasImage /\ Stale(last.ts, last.clock)
  /\ last.skipped # "unmonitored"
  /\ last.wrote

\* C5: history-sync messages are never filtered by recency: the handler
\* invokes the download for every history message that has an image
C5_BacklogAlwaysDownloads ==
  (last.op = "history" /\ last.msg.hasImage) => last.media.download

\* C6: the image of one (message id, chat id) is downloaded at most once,
\* whatever deliveries of that message arrive
C6_DownloadAtMostOnce == ~last.redownload

C8_StagedOnlyFromMonitored ==
  (Handled /\ (files # last.prevFiles \/ last.media.download)) =>
    isKindergartenGroup(last.chat)

\* C9: a failed download, directory creation or file write does not abort
\* the handler: a message with text is archived with an empty media
\* reference (a history message as long as it has a timestamp), and the
\* history loop goes on to the next message
C9_MediaFailureStillArchives ==
  (Handled /\ last.media.err # "" /\ last.content # ""
     /\ (last.op = "history" => last.ts # 0)) =>
    /\ last.msgCall /\ ~last.msgErr
    /\ RowsOf(last.id, last.chat) =
         {[last.row EXCEPT !.content = last.content, !.image_url = NoPath,
                           !.thumbnail_url = NoThumb, !.media_type = ""]}
    /\ (last.op = "history" => hs.active /\ (events < MaxEvents => ENABLED HistoryNext))
C9_Witness ==
  /\ last.op = "history" /\ last.media.err = "failed to save image"
  /\ last.content # "" /\ last.wrote
  /\ events < MaxEvents

\* C10: a send request with a malformed body, an empty destination, or
\* neither text nor media path is answered with a client-error status, and
\* neither the upload nor the send call is invoked for it
C10_BadRequestRefused ==
  (http.op = "send"
     /\ (~http.req.bodyOk \/ http.req.phone = <<>>
           \/ (http.req.message = "" /\ http.req.media_url = ""))) =>
    /\ http.status \in 400..499
    /\ http.uploads = 0 /\ http.sends = 0
    /\ ~http.success
C10_Witness ==
  /\ http.op = "send" /\ http.req.method = "POST" /\ http.req.bodyOk
  /\ http.req.phone = <<>> /\ http.req.media_url # "" /\ http.req.media_type = "image"
  /\ http.wasConnected

\* a request the handler hands to sendWhatsAppMessage
Validated ==
  /\ http.op = "send" /\ http.req.method = "POST" /\ http.req.bodyOk
  /\ http.req.phone # <<>>
  /\ (http.req.message # "" \/ http.req.media_url # "")
\* cause occurs in detail
Contains(detail, cause) ==
  \E i \in 0..(Len(detail) - Len(cause)) : SubSeq(detail, i + 1, i + Len(cause)) = cause

\* C11: the answer to a send request that passes validation is the JSON
\* body holding the success flag and the detail string sendWhatsAppMessage
\* returned, and its status is a server-error status exactly when the flag
\* is false
C11_ResponseCarriesResult ==
  Validated =>
    /\ http.body = SendMessageResponse(http.success, http.detail)
    /\ (http.status \in 500..599) <=> ~http.success
\* a validated image request whose upload failed
C11_Witness ==
  /\ Validated /\ http.wasConnected
  /\ http.uploads = 1 /\ ~http.calls.uploadOk
  /\ http.status = StatusInternalServerError

\* C12: on a connected session a send with a media path, a media kind other
\* than image and video, and non-empty text makes no upload, sends the text
\* as a plain text message, and succeeds whenever client.SendMessage does
C12_UnknownKindFallsBack ==
  (Validated /\ http.wasConnected /\ http.req.media_url # ""
     /\ http.req.media_type \notin {"image", "video"} /\ http.req.message # "") =>
    /\ http.uploads = 0
    /\ http.sends = 1
    /\ http.msg = [kind |-> "text", text |-> http.req.message, caption |-> ""]
    /\ http.calls.sendOk => http.success

\* C13: one send invocation makes at most one client.Upload and at most one
\* client.SendMessage call; after a failed upload no send call is made; a
\* failed upload or send is returned as success = false with a detail that
\* contains the error of the failed call
C13_NoRetryCauseReported ==
  http.op = "send" =>
    /\ http.uploads <= 1 /\ http.sends <= 1
    /\ (http.uploads = 1 /\ ~http.calls.uploadOk) =>
         /\ http.sends = 0 /\ ~http.success
         /\ Contains(http.detail, UploadError)
    /\ (http.sends = 1 /\ ~http.calls.sendOk) =>
         /\ ~http.success
         /\ Contains(http.detail, SendMessageError)
\* an image was uploaded and the send call after it failed
C13_Witness ==
  /\ Validated /\ http.req.media_type = "image"
  /\ http.uploads = 1 /\ http.calls.uploadOk
  /\ http.sends = 1 /\ ~http.calls.sendOk

\* C14: when the file of an image send cannot be read or its bytes do not
\* decode, the send fails with a non-empty detail that reaches the caller,
\* neither client.Upload nor client.SendMessage is invoked, and the command
\* surface goes on taking requests
C14_BadImageFailsCleanly ==
  (Validated /\ http.wasConnected /\ http.req.media_url # ""
     /\ http.req.media_type = "image"
     /\ (~http.calls.readOk \/ ~http.calls.decodeOk)) =>
    /\ ~http.success /\ http.detail # <<>>
    /\ http.body.Message = http.detail
    /\ http.uploads = 0 /\ http.sends = 0
    /\ ENABLED Send
\* the file was read and its bytes did not decode
C14_Witness ==
  /\ Validated /\ http.wasConnected /\ http.req.media_type = "image"
  /\ http.calls.readOk /\ ~http.calls.decodeOk
  /\ Contains(http.detail, DecodeError)

\* C15: a request the handler has taken is answered, also when client.Upload
\* or client.SendMessage fails or does not return (or the process has ended)
C15_RequestsAnswered ==
  (srv.stage # "idle") ~> (srv.stage = "idle" \/ pc = "exited")

\* C16: when the configuration file is missing or malformed the process
\* ends with a non-zero status, with no event handler registered, no session
\* connected and no command surface started
C16_BadConfigExitsNonZero ==
  (pc = "exited" /\ exit.at = "config") =>
    /\ exit.code # 0
    /\ ~registered /\ ~connected /\ ~listening

\* C17: after the shutdown signal no inbound event and no send request is
\* taken, nothing is in flight any more when the archive is closed, and no
\* archive statement is executed on the closed archive
C17_GracefulShutdown ==
  /\ ev.stage # "idle" => ~ev.signalled
  /\ srv.stage # "idle" => ~srv.signalled
  /\ store = "closed" => (ev.stage = "idle" /\ srv.stage = "idle")
  /\ ~late

\* C18: a chat upsert or message upsert that fails in the live handler or
\* in the history-sync handler is logged by the handler
C18_FailedWritesLogged ==
  Handled =>
    /\ (last.chatCall /\ last.chatErr) => last.chatLogged
    /\ (last.msgCall /\ last.msgErr) => last.msgLogged

\* C19: what GetChats gives its caller lists every archived chat exactly
\* once, in the order of last-message timestamp descending
C19_ChatsByRecency ==
  (listing.op = "GetChats" /\ ~listing.err) =>
    /\ Len(listing.out) = Cardinality(chats)
    /\ \A c \in chats : \E i \in 1..Len(listing.out) :
         listing.out[i] = <<c.jid, c.last_message_time>>
    /\ \A i \in 1..Len(listing.out) : \A j \in i..Len(listing.out) :
         listing.out[i][2] >= listing.out[j][2]

\* C20: GetMessages(chatJID, limit) with limit >= 0 gives rows of that chat
\* only, each once, min(limit, rows of the chat) of them, by timestamp
\* descending, none older than a row of the chat that was left out, each
\* scanned into a Message
C20_MostRecentMessages ==
  (listing.op = "GetMessages" /\ ~listing.err) =>
    LET rows == listing.rows
        S == {m \in messages : m.chat_jid = listing.chat}
        got == {rows[i] : i \in 1..Len(rows)}
    IN /\ got \subseteq S
       /\ Cardinality(got) = Len(rows)
       /\ Len(rows) = Min(listing.limit, Cardinality(S))
       /\ \A i \in 1..Len(rows) : \A j \in i..Len(rows) :
            rows[i].timestamp >= rows[j].timestamp
       /\ \A m \in S \ got : \A i \in 1..Len(rows) : rows[i].timestamp >= m.timestamp
       /\ Len(listing.out) = Len(rows)
       /\ \A i \in 1..Len(rows) : listing.out[i] = Message(rows[i])
\* limit 1 on a chat that holds an older and a newer message, next to a
\* message of another chat
C20_Witness ==
  /\ listing.op = "GetMessages" /\ ~listing.err /\ listing.limit = 1
  /\ Len(listing.rows) = 1
  /\ \E m \in messages :
       m.chat_jid = listing.chat /\ m.timestamp < listing.rows[1].timestamp

\* C25: a media acquisition that succeeds returns a path no earlier
\* successful acquisition returned: the path is not the one of the row it
\* replaces nor of a row stored under another key
C25_StagedPathsDistinct ==
  (Handled /\ last.media.imageURL # NoPath) =>
    /\ \A p \in last.prevRows : p.image_url # last.media.imageURL
    /\ \A m \in messages :
         m.image_url = last.media.imageURL => (m.id = last.id /\ m.chat_jid = last.chat)

\* the greatest timestamp among the message rows of a chat
MaxTimestamp(chat) ==
  CHOOSE t \in {m.timestamp : m \in {r \in messages : r.chat_jid = chat}} :
    \A m \in {r \in messages : r.chat_jid = chat} : m.timestamp <= t

\* C27: the last-message timestamp stored for a chat that has message rows
\* is the greatest timestamp among these rows
C27_ChatTimestampIsLatest ==
  \A c \in chats :
    (\E m \in messages : m.chat_jid = c.jid) => c.last_message_time = MaxTimestamp(c.jid)

\* C28: there is at most one chat row per chat identifier, and no step
\* removes a chat identifier or a (message id, chat id) key from the archive
C28_RowsNeverDeleted ==
  /\ [](\A c \in chats : \A d \in chats : c.jid = d.jid => c = d)
  /\ [][/\ {c.jid : c \in chats} \subseteq {c.jid : c \in chats'}
        /\ {<<m.id, m.chat_jid>> : m \in messages}
             \subseteq {<<m.id, m.chat_jid>> : m \in messages'}]_vars
\* a delivery replaced the chat row and the message row stored before
C28_Witness ==
  /\ Handled /\ last.wrote
  /\ last.prevRows # {} /\ last.prevRows # {last.row}
  /\ last.prevChat # {} /\ last.prevChat # ChatRows(last.chat)

\* C29: when a live delivery and a backlog delivery of one (message id,
\* chat id) overlap, each handler's upsert leaves under the key exactly one
\* row, which is the row that handler wrote or the row stored before, never
\* a mix of the two
C29_OverlappingUpsertWholeRow ==
  /\ \A a \in messages : \A b \in messages : SameKey(a, b) => a = b
  /\ (Handled /\ last.msgCall) =>
       \/ RowsOf(last.id, last.chat) = {last.row}
       \/ RowsOf(last.id, last.chat) = last.prevRows
\* while a conversation of the backlog is being worked on, a live delivery
\* replaced the row the backlog wrote under the same key
C29_Witness ==
  /\ last.op = "live" /\ last.wrote
  /\ hs.active /\ hs.chat = last.chat
  /\ last.prevRows # {} /\ last.prevRows # {last.row}
  /\ RowsOf(last.id, last.chat) = {last.row}

\* C30: a Disconnected or LoggedOut event leaves the archive and the staged
\* files as they are and the process running, and a send requested while
\* the session is not connected fails with no upload and no send call
C30_DisconnectNonFatal ==
  /\ [][(connected /\ ~connected') =>
          /\ chats' = chats /\ messages' = messages /\ files' = files
          /\ pc' = pc /\ exit' = Running /\ listening']_vars
  /\ []((Validated /\ ~http.wasConnected) =>
          /\ ~http.success /\ http.detail # <<>>
          /\ http.uploads = 0 /\ http.sends = 0
          /\ http.status = StatusInternalServerError)
\* an image send was requested while the session was down
C30_Witness ==
  /\ Validated /\ ~http.wasConnected /\ ~connected
  /\ http.req.media_url # "" /\ http.req.media_type = "image"

\* C26: a message of a history-sync conversation that has text or a staged
\* image and a non-zero timestamp has a row in the archive once the
\* conversation was gone through without storage errors, whatever the
\* conversation's first message is
C26_HistoryMessagesArchived ==
  (/\ last.op \in {"history", "history_skip"}
   /\ last.chat \notin {NilID, BadJID}
   /\ ~last.chatErr /\ ~last.msgErr
   /\ last.ts # 0
   /\ (last.content # "" \/ last.media.imageURL # NoPath)) =>
    \E m \in messages : m.id = last.id /\ m.chat_jid = last.chat

\* C24: with the list-groups flag set, no request to /api/send is taken or
\* answered, and the exit from the Connected handler is with status 0 and
\* the session disconnected, also when the group query failed
C24_ListGroupsAndExit ==
  listGroupsFlag =>
    /\ http.op = "none" /\ srv.stage = "idle"
    /\ (exit.at = "list-groups" => (exit.code = 0 /\ ~connected /\ pc = "exited"))

\* the identity's quorum is met by the faces
Quorum(identity, faces) ==
  Cardinality({r \in References(identity) : \E f \in faces : f[r] <= ConfidenceThreshold})
    >= MinMatchingFaces

\* C21: an identity is declared matched for an image if and only if at
\* least min_matching_faces of its reference photos have a detected face at
\* distance <= confidence_threshold, a reference photo counting once; a
\* single face within the threshold of exactly 2 of 3 references is a match,
\* of only 1 is none
C21_QuorumMatching ==
  (eng.op = "processed" /\ eng.outcome # "error") =>
    /\ \A i \in Identities : i \in eng.matched <=> Quorum(i, eng.faces)
    /\ (eng.outcome = "matched") <=> (eng.matched # {})
    /\ \A f \in eng.faces :
         LET near == {r \in References("ann") : f[r] <= ConfidenceThreshold}
         IN /\ (eng.faces = {f} /\ Cardinality(near) = 2) => "ann" \in eng.matched
            /\ (eng.faces = {f} /\ Cardinality(near) = 1) => "ann" \notin eng.matched
\* two detected faces are within the threshold of the same single reference
\* photo of an identity, which is not matched
C21_Witness ==
  /\ eng.op = "processed" /\ eng.outcome # "error"
  /\ Cardinality(eng.faces) = 2
  /\ \A f \in eng.faces :
       {r \in References("ann") : f[r] <= ConfidenceThreshold} = {"a1"}
  /\ "ann" \notin eng.matched

\* C22: the pass over an image makes exactly one dispatch call for every
\* identity whose quorum is met, to that identity's destination, and none
\* for an identity whose quorum is not met
C22_FanOut ==
  eng.op = "processed" =>
    /\ \A i \in Identities :
         Cardinality({k \in DOMAIN eng.calls : eng.calls[k].identity = i})
           = IF eng.outcome # "error" /\ Quorum(i, eng.faces) THEN 1 ELSE 0
    /\ \A k \in DOMAIN eng.calls :
         /\ eng.calls[k].to = Destination(eng.calls[k].identity)
         /\ eng.calls[k].media = eng.file
\* an image met the quorum of both identities
C22_Witness ==
  /\ eng.op = "processed"
  /\ Quorum("ann", eng.faces) /\ Quorum("ben", eng.faces)
  /\ Len(eng.calls) = 2
  /\ eng.calls[1].to # eng.calls[2].to

\* C23: once the pass over a staged file is over, the file is no longer in
\* store/media, whether the image matched, did not match or the pass failed
C23_StagedFileDeleted ==
  eng.op = "processed" => eng.file \notin files
\* a pass that failed in the matching has left no file behind
C23_Witness ==
  /\ eng.op = "processed" /\ eng.outcome = "error" /\ eng.faces # {}
  /\ eng.file \notin files

\* C31: a destination ending in "@g.us" is sent to the group address whose
\* user part is the destination without the suffix; any other destination
\* is sent to the individual address of the destination, the individual
\* server not being added to a destination that already ends in it
C31_DestinationAddressing ==
  (http.op = "send" /\ http.sends = 1) =>
    IF HasSuffix(http.req.phone, GroupSuffix)
    THEN http.to = [User |-> TrimSuffix(http.req.phone, GroupSuffix), Server |-> "g.us"]
    ELSE /\ http.to.Server = "s.whatsapp.net"
         /\ http.to.User = TrimSuffix(http.req.phone, "@s.whatsapp.net")

\* the plain text of a message: the conversation text or the extended text
PlainText(msg) ==
  IF msg.conversation # "" THEN msg.conversation
  ELSE IF msg.hasExt THEN msg.extText ELSE ""

\* C32: extractTextContent returns the plain text when there is one,
\* otherwise the caption of the image when the message carries an image,
\* otherwise the empty string; a nil message gives the empty string
C32_TextExtraction ==
  last.op = "extractTextContent" =>
    last.content =
      IF last.msg.nil THEN ""
      ELSE IF PlainText(last.msg) # "" THEN PlainText(last.msg)
      ELSE IF last.msg.hasImage THEN last.msg.caption
      ELSE ""

\* C33: every message row's chat identifier is the key of a chat row,
\* whatever chat upserts and message upserts were made, failed or left out
C33_ReferentialIntegrity ==
  \A m \in messages : \E c \in chats : c.jid = m.chat_jid
\* a message upsert with content was refused because its chat has no row,
\* the chat upsert before it having failed or not been made
C33_Witness ==
  /\ last.op = "StoreMessage" /\ last.row.content # ""
  /\ last.prevChat = {} /\ last.msgErr /\ ~last.wrote
  /\ ChatRows(last.chat) = {} /\ RowsOf(last.id, last.chat) = {}

\* C34: the /api/send handler enters client.Upload or client.SendMessage
\* only while the session is connected, however the request interleaves
\* with the loss of the session
C34_NoCallWhileDisconnected ==
  [][(srv'.stage \in {"upload", "send"} /\ srv'.stage # srv.stage) => connected]_vars

\* C38: the archive is opened and the event handler registered before the
\* session connects, so no inbound event is handled before the archive is
\* there; the command surface is started only after the session connected,
\* which without a stored login needs the QR success event, and a process
\* that gave up the connection ends without a command surface
C38_StartupOrdering ==
  /\ [][(connected' /\ ~connected) => (registered /\ store = "open")]_vars
  /\ [](registered => store # "none")
  /\ []((ev.stage # "idle" \/ events > 0) => (registered /\ store # "none"))
  /\ [][(listening' /\ ~listening) => (cn # "none" /\ qr \in {"none", "success"})]_vars
  /\ []((srv.stage # "idle" \/ http.op # "none") => listening)
  /\ []((pc = "exited" /\ exit.at = "connect") => ~listening)
\* paired by QR code, the process serves requests and has handled a message
C38_Witness ==
  /\ qr = "success" /\ listening /\ http.op = "send" /\ events > 0
  /\ store = "open" /\ registered

\* C35: after a live or history-sync handler, the file the handler staged
\* is the media reference of an archived message row, and so is still the
\* file of the row the handler found under the message's key
C35_NoOrphanStagedFiles ==
  Handled =>
    /\ last.media.imageURL # NoPath =>
         \E m \in messages : m.image_url = last.media.imageURL
    /\ \A p \in last.prevRows :
         (p.image_url # NoPath /\ p.image_url \in files) =>
           \E m \in messages : m.image_url = p.image_url

\* C36: a history-sync message without a key identifier that is archived
\* does not replace the row of another message (a row with another content
\* or another timestamp)
C36_BacklogRowsDistinct ==
  (last.op = "history" /\ last.wrote /\ last.id = "") =>
    \A p \in last.prevRows :
      p.content = last.row.content /\ p.timestamp = last.row.timestamp

\* C37: the message handed to client.SendMessage for a request that passed
\* validation has text or carries an uploaded image or video
C37_NoEmptyMessage ==
  (Validated /\ http.sends = 1) =>
    \/ http.msg.text # ""
    \/ (http.msg.kind \in {"image", "video"} /\ http.uploads = 1)

====
